---- MODULE Spec2Model ----
(***************************************************************************)
(* FarmBnB booking backend (routes/bookings.js, routes/payments.js) and    *)
(* the customer's My Bookings page, as a state machine over the bookings   *)
(* table.                                                                  *)
(*                                                                         *)
(* Amounts are integer minor units (paise): the columns are DECIMAL(10,2). *)
(* Instants are integer ticks, TicksPerDay to a day, tick 0 being UTC      *)
(* midnight of day 0; a date-only string "YYYY-MM-DD" parses to the UTC    *)
(* midnight of its day.  The server's local time is UTC plus tz ticks.     *)
(***************************************************************************)
EXTENDS Integers, Sequences, FiniteSets, TLC

\* ------------------------------------------------------------------ bounds
MaxBookings == 2
MaxNow == 3
MaxProofs == 4
MaxExtraPaid == 15000

\* ------------------------------------------------------- program constants
\* 1000 * 60 * 60 * 24 milliseconds, in ticks
TicksPerDay == 2
\* 500 per guest and night, in minor units
FoodRate == 50000
IdProofsMinFiles == 2

\* ------------------------------------------------------------ environment
\* Authenticated principals (every route runs behind verifyFirebaseToken).
Users == {"alice", "bob", "root"}
Customers == {"alice", "bob"}

\* req.firebaseUser.admin === true || req.firebaseUser.role === 'admin'
isAdminFromReq(u) == u = "root"

\* firebaseUser.phoneNumber && firebaseUser.phoneNumber.length > 0
hasFirebasePhone(u) == u = "root"

\* profile && profile.phone && profile.phone.length > 0
hasPhoneInProfile(u) == u = "alice"

\* The properties table (rates in minor units).
PropertyIds == {1, 2, 3}
Properties ==
  [p \in PropertyIds |->
     CASE p = 1 -> [is_active |-> TRUE, max_guests |-> 10,
                    base_price_per_night |-> 200000, per_head_charge |-> 20000,
                    cleaning_fee |-> 10000, service_fee |-> 5000]
       [] p = 2 -> [is_active |-> TRUE, max_guests |-> 4,
                    base_price_per_night |-> 100001, per_head_charge |-> 0,
                    cleaning_fee |-> 0, service_fee |-> 0]
       [] p = 3 -> [is_active |-> FALSE, max_guests |-> 10,
                    base_price_per_night |-> 200000, per_head_charge |-> 20000,
                    cleaning_fee |-> 10000, service_fee |-> 5000]]

Days == {0, 1, 2}
TzOffsets == {0, 1}

\* ------------------------------------------------------------------ dates
\* new Date("YYYY-MM-DD"): UTC midnight of the day.
DateOnly(d) == d * TicksPerDay

\* Date.prototype.toISOString().slice(0,10), and the cast of an ISO
\* timestamp to the DATE column type: the UTC calendar day.
UtcDay(i) == i \div TicksPerDay

\* Date.prototype.toDateString(): the calendar day in the server's zone.
LocalDay(i, off) == (i + off) \div TicksPerDay

\* Math.ceil(a / b) for b > 0.
Ceil(a, b) == -((-a) \div b)

\* Math.ceil((checkOutDate - checkInDate) / (1000 * 60 * 60 * 24))
Nights(ci, co) == Ceil(co - ci, TicksPerDay)

\* ---------------------------------------------------------------- pricing
\* Mutant of ToFixed2Half: the half of a minor unit is cut off.
ToFixed2HalfTruncated(t) == t \div 2

\* Number((x).toFixed(2)) of x = t / 2 minor units: nearest, ties away from 0.
ToFixed2Half(t) == IF t >= 0 THEN (t + 1) \div 2 ELSE -((1 - t) \div 2)

\* Math.round(x * 100) / 100 of x = t / 2 minor units: floor(x + 0.5).
RoundHalf(t) == (t + 1) \div 2

Max(a, b) == IF a >= b THEN a ELSE b

\* Mutant of Price: extra_fees leaves the food charge out.
PriceFoodOutsideFees(p, ci, co, g, food) ==
  LET property == Properties[p]
      perHead == property.per_head_charge
      base == property.base_price_per_night
      nights == Nights(ci, co)
      subtotal == base * nights
      guestCharges == perHead * g * nights
      foodCharge == IF food THEN g * FoodRate * nights ELSE 0
      totalAmount == subtotal + guestCharges + foodCharge
                       + property.cleaning_fee + property.service_fee
  IN [base_amount |-> subtotal,
      guest_charges |-> guestCharges,
      extra_fees |-> property.cleaning_fee + property.service_fee,
      total_amount |-> totalAmount,
      advance_paid |-> ToFixed2Half(totalAmount)]

\* The amounts POST /api/bookings computes and inserts.
Price(p, ci, co, g, food) ==
  LET property == Properties[p]
      perHead == property.per_head_charge
      base == property.base_price_per_night
      nights == Nights(ci, co)
      subtotal == base * nights
      guestCharges == perHead * g * nights
      foodCharge == IF food THEN g * FoodRate * nights ELSE 0
      totalAmount == subtotal + guestCharges + foodCharge
                       + property.cleaning_fee + property.service_fee
  IN [base_amount |-> subtotal,
      guest_charges |-> guestCharges,
      extra_fees |-> property.cleaning_fee + property.service_fee + foodCharge,
      total_amount |-> totalAmount,
      advance_paid |-> ToFixed2Half(totalAmount)]

\* ------------------------------------------------------------------ state
VARIABLES
  bookings,   \* the bookings table: row i has id i
  now,        \* the current instant
  tz,         \* the server's zone offset, in ticks
  page,       \* the cards of a loaded My Bookings page, or NoPage
  last,       \* the last request and its response
  inflight    \* the requests between their handler's read and its write

vars == <<bookings, now, tz, page, last, inflight>>

NoPage == [user |-> "none", cards |-> {}]
NoRequest == [op |-> "none", caller |-> "none", id |-> 0, res |-> "none"]

\* The handlers are async functions: each awaits its select, and later its
\* insert or update, and other requests run in between. A slot holds a
\* request whose handler has read and checked the table and has not yet
\* written: what it will write, and the booking as it read it.
Slots == {1, 2}
Waiting == [op |-> "none", caller |-> "none", id |-> 0, row |-> << >>,
            amount |-> 0, ref |-> "", file |-> FALSE]
NoneInflight == [s \in Slots |-> Waiting]

Ids == 1 .. MaxBookings
Exists(id) == id \in 1 .. Len(bookings)
Active(b) == b.status \in {"pending", "confirmed"}

Response(op, u, id, res) == [op |-> op, caller |-> u, id |-> id, res |-> res]

\* supabase.from('bookings').update(patch).eq('id', id)
Update(id, patch) ==
  [bookings EXCEPT ![id] =
     [f \in DOMAIN @ |-> IF f \in DOMAIN patch THEN patch[f] ELSE @[f]]]

\* The empty table, at noon of day 0, on a server in UTC.
Init ==
  /\ bookings = << >>
  /\ now = 1
  /\ tz = 0
  /\ page = NoPage
  /\ last = NoRequest
  /\ inflight = NoneInflight


\* --------------------------------------------------------- POST /bookings
\* Mutant of Conflicts: the status filter forgets 'pending'.
ConflictsConfirmedOnly(p, ci, co) ==
  {i \in 1 .. Len(bookings) :
     /\ bookings[i].property_id = p
     /\ bookings[i].status = "confirmed"
     /\ bookings[i].check_in_date <= UtcDay(co)
     /\ bookings[i].check_out_date >= UtcDay(ci)}

\* Mutant of Conflicts: the status filter is missing.
ConflictsAnyStatus(p, ci, co) ==
  {i \in 1 .. Len(bookings) :
     /\ bookings[i].property_id = p
     /\ bookings[i].check_in_date <= UtcDay(co)
     /\ bookings[i].check_out_date >= UtcDay(ci)}

\* .eq('property_id', p).in('status', ['pending','confirmed'])
\* .lte('check_in_date', checkOut).gte('check_out_date', checkIn)
Conflicts(p, ci, co) ==
  {i \in 1 .. Len(bookings) :
     /\ bookings[i].property_id = p
     /\ bookings[i].status \in {"pending", "confirmed"}
     /\ bookings[i].check_in_date <= UtcDay(co)
     /\ bookings[i].check_out_date >= UtcDay(ci)}

\* hasFirebasePhone || (profile && profile.phone_verified === true): computed
\* by the gate and not read by it; no profile is marked verified.
isPhoneVerified(u) == hasFirebasePhone(u)

\* Mutant of PhoneGatePasses: a lookup that throws rejects like a missing phone.
PhoneGateStrict(u, lookupFails) ==
  ~lookupFails /\ (hasFirebasePhone(u) \/ hasPhoneInProfile(u))

\* The phone gate: a lookup that throws lets the request through.
PhoneGatePasses(u, lookupFails) ==
  lookupFails \/ hasFirebasePhone(u) \/ hasPhoneInProfile(u)

\* Mutant of CreateResponse: the capacity check lets one guest too many in.
CreateResponseOneGuestOver(u, p, ci, co, g, lookupFails) ==
  IF g < 1 THEN "validation"
  ELSE IF ~PhoneGatePasses(u, lookupFails) THEN "phone_required"
  ELSE IF ~Properties[p].is_active THEN "property_unavailable"
  ELSE IF g > Properties[p].max_guests + 1 THEN "max_guests"
  ELSE IF LocalDay(ci, tz) # LocalDay(co, tz) THEN "same_day_only"
  ELSE IF ci < now THEN "past_date"
  ELSE IF Conflicts(p, ci, co) # {} THEN "already_booked"
  ELSE "created"

\* The response of POST /api/bookings, the checks in the handler's order.
CreateResponse(u, p, ci, co, g, lookupFails) ==
  IF g < 1 THEN "validation"
  ELSE IF ~PhoneGatePasses(u, lookupFails) THEN "phone_required"
  ELSE IF ~Properties[p].is_active THEN "property_unavailable"
  ELSE IF g > Properties[p].max_guests THEN "max_guests"
  ELSE IF LocalDay(ci, tz) # LocalDay(co, tz) THEN "same_day_only"
  ELSE IF ci < now THEN "past_date"
  ELSE IF Conflicts(p, ci, co) # {} THEN "already_booked"
  ELSE "created"

\* The value a new row's verification_status column takes: the insert does
\* not set it, and the column's default is 'pending'.
DefaultVerificationStatus == "pending"

\* The row the handler inserts; the columns it does not set are empty.
NewBooking(u, p, ci, co, g, food) ==
  LET price == Price(p, ci, co, g, food)
  IN [property_id |-> p,
      customer_id |-> u,
      check_in_date |-> UtcDay(ci),
      check_out_date |-> UtcDay(co),
      num_guests |-> g,
      base_amount |-> price.base_amount,
      guest_charges |-> price.guest_charges,
      extra_fees |-> price.extra_fees,
      total_amount |-> price.total_amount,
      advance_paid |-> price.advance_paid,
      status |-> "pending",
      food_required |-> food,
      verification_status |-> DefaultVerificationStatus,
      id_proofs |-> << >>,
      payment_method |-> "none",
      manual_reference |-> "",
      payment_screenshot_url |-> ""]

CreateBooking(u, p, ci, co, g, food, lookupFails) ==
  LET res == CreateResponse(u, p, ci, co, g, lookupFails)
  IN /\ res = "created" => Len(bookings) < MaxBookings
     /\ IF res = "created"
          THEN bookings' = Append(bookings, NewBooking(u, p, ci, co, g, food))
          ELSE bookings' = bookings
     /\ last' = Response("create", u, 0, res)
     /\ UNCHANGED <<now, tz, page, inflight>>

\* ------------------------------------------------- admin-only transitions
\* middleware/firebaseAuth.requireAdmin: passes for the admin role only.
requireAdmin(u) == u = "root"

\* PUT /api/bookings/:id/confirm
ConfirmResponse(u, id) ==
  IF ~requireAdmin(u) THEN "admin_required"
  ELSE IF ~Exists(id) THEN "not_found"
  ELSE IF bookings[id].status # "pending" THEN "not_pending"
  ELSE "ok"

ConfirmBooking(u, id) ==
  LET res == ConfirmResponse(u, id)
  IN /\ bookings' = IF res = "ok" THEN Update(id, [status |-> "confirmed"])
                                  ELSE bookings
     /\ last' = Response("confirm", u, id, res)
     /\ UNCHANGED <<now, tz, page, inflight>>

\* Mutant of CompleteResponse: the route is mounted without requireAdmin.
CompleteResponseNoAdmin(u, id) ==
  IF ~Exists(id) THEN "not_found"
  ELSE IF bookings[id].status # "confirmed" THEN "not_confirmed"
  ELSE "ok"

\* PUT /api/bookings/:id/complete
CompleteResponse(u, id) ==
  IF ~requireAdmin(u) THEN "admin_required"
  ELSE IF ~Exists(id) THEN "not_found"
  ELSE IF bookings[id].status # "confirmed" THEN "not_confirmed"
  ELSE "ok"

CompleteBooking(u, id) ==
  LET res == CompleteResponse(u, id)
  IN /\ bookings' = IF res = "ok" THEN Update(id, [status |-> "completed"])
                                  ELSE bookings
     /\ last' = Response("complete", u, id, res)
     /\ UNCHANGED <<now, tz, page, inflight>>

\* PUT /api/bookings/:id/verify
VerifyStatuses == {"approved", "rejected", "pending", "bogus"}

\* Mutant of VerifyResponse: the decision 'pending' is refused as invalid.
VerifyResponseTwoDecisions(u, id, st) ==
  IF ~requireAdmin(u) THEN "admin_required"
  ELSE IF st \notin {"approved", "rejected"} THEN "invalid_status"
  ELSE IF ~Exists(id) THEN "not_found"
  ELSE "ok"

\* Mutant of VerifyResponse: a decision equal to the stored one is refused.
VerifyResponseRefusesRepeat(u, id, st) ==
  IF ~requireAdmin(u) THEN "admin_required"
  ELSE IF st \notin {"approved", "rejected", "pending"} THEN "invalid_status"
  ELSE IF ~Exists(id) THEN "not_found"
  ELSE IF bookings[id].verification_status = st THEN "already_set"
  ELSE "ok"

VerifyResponse(u, id, st) ==
  IF ~requireAdmin(u) THEN "admin_required"
  ELSE IF st \notin {"approved", "rejected", "pending"} THEN "invalid_status"
  ELSE IF ~Exists(id) THEN "not_found"
  ELSE "ok"

VerifyBooking(u, id, st) ==
  LET res == VerifyResponse(u, id, st)
  IN /\ bookings' = IF res = "ok" THEN Update(id, [verification_status |-> st])
                                  ELSE bookings
     /\ last' = Response("verify", u, id, res)
     /\ UNCHANGED <<now, tz, page, inflight>>

\* ------------------------------------------- owner-or-admin transitions
\* Mutant of Authorized: the ownership comparison is missing.
AuthorizedAnyone(u, id) == TRUE

\* !isAdmin && booking.customer_id !== req.firebaseUser.uid  =>  403
Authorized(u, id) == isAdminFromReq(u) \/ bookings[id].customer_id = u

\* Mutant of CancelResponse: the status guard is missing.
CancelResponseNoGuard(u, id) ==
  IF ~Exists(id) THEN "not_found"
  ELSE IF ~Authorized(u, id) THEN "not_authorized"
  ELSE "ok"

\* PUT /api/bookings/:id/cancel
CancelResponse(u, id) ==
  IF ~Exists(id) THEN "not_found"
  ELSE IF ~Authorized(u, id) THEN "not_authorized"
  ELSE IF bookings[id].status \in {"cancelled", "completed"} THEN "cannot_cancel"
  ELSE "ok"

CancelBooking(u, id) ==
  LET res == CancelResponse(u, id)
  IN /\ bookings' = IF res = "ok" THEN Update(id, [status |-> "cancelled"])
                                  ELSE bookings
     /\ last' = Response("cancel", u, id, res)
     /\ UNCHANGED <<now, tz, page, inflight>>

\* POST /api/bookings/:id/id-proofs
UploadResponse(u, id, k, storageFails) ==
  IF k < IdProofsMinFiles THEN "min_files"
  ELSE IF ~Exists(id) THEN "not_found"
  ELSE IF ~Authorized(u, id) THEN "not_authorized"
  ELSE IF storageFails THEN "upload_failed"
  ELSE "ok"

\* results: one fresh reference per file, in the order of the files.
NewRefs(old, k) == [i \in 1 .. k |-> Len(old) + i]

\* Mutant of UploadIdProofs: the upload leaves verification_status alone.
UploadIdProofsKeepsStatus(u, id, k, storageFails) ==
  LET res == UploadResponse(u, id, k, storageFails)
  IN /\ res = "ok" => Len(bookings[id].id_proofs) + k <= MaxProofs
     /\ bookings' =
          IF res = "ok"
            THEN Update(id, [id_proofs |-> bookings[id].id_proofs
                                             \o NewRefs(bookings[id].id_proofs, k)])
            ELSE bookings
     /\ last' = Response("id_proofs", u, id, res)
     /\ UNCHANGED <<now, tz, page, inflight>>

UploadIdProofs(u, id, k, storageFails) ==
  LET res == UploadResponse(u, id, k, storageFails)
  IN /\ res = "ok" => Len(bookings[id].id_proofs) + k <= MaxProofs
     /\ bookings' =
          IF res = "ok"
            THEN Update(id, [id_proofs |-> bookings[id].id_proofs
                                             \o NewRefs(bookings[id].id_proofs, k),
                             verification_status |-> "pending"])
            ELSE bookings
     /\ last' = Response("id_proofs", u, id, res)
     /\ UNCHANGED <<now, tz, page, inflight>>

\* POST /api/payments/create-intent
AdvanceTarget(b) == RoundHalf(b.total_amount)
AmountToPay(b) == Max(AdvanceTarget(b) - b.advance_paid, 0)

CreateIntentResponse(u, id) ==
  IF ~Exists(id) THEN "not_found"
  ELSE IF ~Authorized(u, id) THEN "not_authorized"
  ELSE IF bookings[id].verification_status # "approved" THEN "not_approved"
  ELSE IF bookings[id].status = "cancelled" THEN "cancelled_booking"
  ELSE IF AmountToPay(bookings[id]) <= 0 THEN "already_paid"
  ELSE "ok"

CreateIntent(u, id) ==
  LET res == CreateIntentResponse(u, id)
  IN /\ bookings' = IF res = "ok" THEN Update(id, [payment_method |-> "manual"])
                                  ELSE bookings
     /\ last' = Response("create_intent", u, id, res)
     /\ UNCHANGED <<now, tz, page, inflight>>

\* POST /api/payments/confirm
PayAmounts == {0, 7500}
References == {"", "txn"}

SubmitPaymentResponse(u, id, file, storageFails) ==
  IF ~Exists(id) THEN "not_found"
  ELSE IF ~Authorized(u, id) THEN "not_authorized"
  ELSE IF bookings[id].verification_status # "approved" THEN "not_approved"
  ELSE IF file /\ storageFails THEN "upload_failed"
  ELSE "ok"

\* Mutant of PaymentUpdates: a submitted payment confirms the booking.
PaymentUpdatesAutoConfirm(b, amount, ref, file) ==
  [advance_paid |-> b.advance_paid + amount,
   payment_method |-> "manual",
   manual_reference |-> IF ref # "" THEN ref ELSE b.manual_reference,
   payment_screenshot_url |-> IF file THEN "shot" ELSE b.payment_screenshot_url,
   status |-> "confirmed"]

PaymentUpdates(b, amount, ref, file) ==
  LET base == [advance_paid |-> b.advance_paid + amount,
               payment_method |-> "manual"]
      withRef == IF ref # "" THEN [manual_reference |-> ref] ELSE << >>
      withShot == IF file THEN [payment_screenshot_url |-> "shot"] ELSE << >>
  IN [f \in DOMAIN base \cup DOMAIN withRef \cup DOMAIN withShot |->
        IF f \in DOMAIN withShot THEN withShot[f]
        ELSE IF f \in DOMAIN withRef THEN withRef[f]
        ELSE base[f]]

SubmitPayment(u, id, amount, ref, file, storageFails) ==
  LET res == SubmitPaymentResponse(u, id, file, storageFails)
  IN /\ res = "ok" =>
          bookings[id].advance_paid + amount
            <= ToFixed2Half(bookings[id].total_amount) + MaxExtraPaid
     /\ bookings' =
          IF res = "ok"
            THEN Update(id, PaymentUpdates(bookings[id], amount, ref, file))
            ELSE bookings
     /\ last' = Response("submit_payment", u, id, res)
     /\ UNCHANGED <<now, tz, page, inflight>>

\* --------------------------------------------------------- My Bookings page
\* new Date(b.check_out_date): the UTC midnight of the stored date.
CheckOutInstant(b) == DateOnly(b.check_out_date)

isPendingApproval(b) == b.verification_status = "pending"

HasPaymentEvidence(b) ==
  b.payment_screenshot_url # "" \/ b.manual_reference # ""

isPendingPayment(b) ==
  /\ b.verification_status = "approved"
  /\ b.status = "pending"
  /\ ~HasPaymentEvidence(b)

isPendingPaymentConfirmation(b) ==
  /\ b.verification_status = "approved"
  /\ b.status = "pending"
  /\ HasPaymentEvidence(b)

isUpcoming(b, t) ==
  /\ CheckOutInstant(b) >= t
  /\ ~isPendingApproval(b)
  /\ ~isPendingPayment(b)
  /\ ~isPendingPaymentConfirmation(b)
  /\ b.status # "cancelled"
  /\ b.status = "confirmed"

isPast(b, t) ==
  /\ CheckOutInstant(b) < t
  /\ ~isPendingApproval(b)
  /\ ~isPendingPayment(b)
  /\ ~isPendingPaymentConfirmation(b)

isCancelledCard(b) == b.status = "cancelled"

\* calculateAdvance(total): Math.round(total * 0.5 * 100) / 100
calculateAdvance(total) == RoundHalf(total)

\* The 'Balance Payment' line of the booking details dialog.
RemainingAmount(b) == Max(b.total_amount - b.advance_paid, 0)

\* The _status values of the cards activeBookings and historyBookings hold
\* for booking b at instant t.
Stages(b, t) ==
  {s \in {"pending_approval", "pending_payment",
          "pending_payment_confirmation", "confirmed", "past", "cancelled"} :
     \/ s = "pending_approval" /\ isPendingApproval(b)
     \/ s = "pending_payment" /\ isPendingPayment(b)
     \/ s = "pending_payment_confirmation" /\ isPendingPaymentConfirmation(b)
     \/ s = "confirmed" /\ isUpcoming(b, t)
     \/ s = "past" /\ isPast(b, t)
     \/ s = "cancelled" /\ isCancelledCard(b)}

\* The cards rendered for user u from the rows with customer_id = u.
Cards(rows, u, t) ==
  {c \in (1 .. Len(rows)) \X {"pending_approval", "pending_payment",
            "pending_payment_confirmation", "confirmed", "past", "cancelled"} :
     /\ rows[c[1]].customer_id = u
     /\ c[2] \in Stages(rows[c[1]], t)}

\* The card stages renderBookingCard gives a Cancel button.
CancelStages == {"pending_payment", "pending_payment_confirmation", "confirmed"}

\* useQuery(["my-bookings"]): the page loads the user's bookings.
LoadMyBookings(u) ==
  /\ page' = [user |-> u, cards |-> Cards(bookings, u, now)]
  /\ last' = Response("page_load", u, 0, "ok")
  /\ UNCHANGED <<bookings, now, tz, inflight>>

\* A Cancel button of a rendered card: an update by id, then location.reload().
\* The update reports no error whether it matched the row or row-level
\* security hid the row from it (rowMatched).
PageCancel(id, stage, rowMatched) ==
  /\ <<id, stage>> \in page.cards
  /\ stage \in CancelStages
  /\ bookings' = IF rowMatched THEN Update(id, [status |-> "cancelled"])
                               ELSE bookings
  /\ page' = [user |-> page.user, cards |-> Cards(bookings', page.user, now)]
  /\ last' = Response("page_cancel", page.user, id, "ok")
  /\ UNCHANGED <<now, tz, inflight>>

\* ------------------------------------------- handlers, await by await
\* The handler of request req has passed its checks and awaits its write;
\* it has answered nothing yet.
Enter(req) ==
  /\ \E s \in Slots :
       /\ inflight[s].op = "none"
       /\ \A t \in Slots : t < s => inflight[t].op # "none"
       /\ inflight' = [inflight EXCEPT ![s] = req]
  /\ UNCHANGED <<bookings, now, tz, page, last>>

Leave(s) == inflight' = [inflight EXCEPT ![s] = Waiting]

InflightCreates == Cardinality({s \in Slots : inflight[s].op = "create"})

\* POST /api/bookings up to its insert: a rejected request is answered at
\* once, an admitted one holds the row it will insert.
CreateRead(u, p, ci, co, g, food, lookupFails) ==
  IF CreateResponse(u, p, ci, co, g, lookupFails) = "created"
    THEN /\ Len(bookings) + InflightCreates < MaxBookings
         /\ Enter([Waiting EXCEPT !.op = "create", !.caller = u,
                                  !.row = NewBooking(u, p, ci, co, g, food)])
    ELSE CreateBooking(u, p, ci, co, g, food, lookupFails)

\* Mutant of CreateWrite: the insert looks for a conflicting booking again.
CreateWriteRechecked(s) ==
  LET req == inflight[s]
      free == Conflicts(req.row.property_id, DateOnly(req.row.check_in_date),
                        DateOnly(req.row.check_out_date)) = {}
  IN /\ req.op = "create"
     /\ bookings' = IF free THEN Append(bookings, req.row) ELSE bookings
     /\ last' = Response("create", req.caller, 0,
                         IF free THEN "created" ELSE "already_booked")
     /\ Leave(s)
     /\ UNCHANGED <<now, tz, page>>

\* The insert of POST /api/bookings, and its answer.
CreateWrite(s) ==
  LET req == inflight[s]
  IN /\ req.op = "create"
     /\ bookings' = Append(bookings, req.row)
     /\ last' = Response("create", req.caller, 0, "created")
     /\ Leave(s)
     /\ UNCHANGED <<now, tz, page>>

\* PUT /api/bookings/:id/confirm up to its update.
ConfirmRead(u, id) ==
  IF ConfirmResponse(u, id) = "ok"
    THEN Enter([Waiting EXCEPT !.op = "confirm", !.caller = u, !.id = id])
    ELSE ConfirmBooking(u, id)

\* PUT /api/bookings/:id/cancel up to its update.
CancelRead(u, id) ==
  IF CancelResponse(u, id) = "ok"
    THEN Enter([Waiting EXCEPT !.op = "cancel", !.caller = u, !.id = id])
    ELSE CancelBooking(u, id)

\* PUT /api/bookings/:id/complete up to its update.
CompleteRead(u, id) ==
  IF CompleteResponse(u, id) = "ok"
    THEN Enter([Waiting EXCEPT !.op = "complete", !.caller = u, !.id = id])
    ELSE CompleteBooking(u, id)

\* The status each transition's update writes.
StatusWritten(op) ==
  CASE op = "confirm" -> "confirmed"
    [] op = "cancel" -> "cancelled"
    [] op = "complete" -> "completed"

\* update({ status }).eq('id', id) of confirm, cancel and complete, and the
\* answer: the update names the row by its id alone.
StatusWrite(s) ==
  LET req == inflight[s]
  IN /\ req.op \in {"confirm", "cancel", "complete"}
     /\ bookings' = Update(req.id, [status |-> StatusWritten(req.op)])
     /\ last' = Response(req.op, req.caller, req.id, "ok")
     /\ Leave(s)
     /\ UNCHANGED <<now, tz, page>>

\* POST /api/payments/confirm up to its update: the handler keeps the
\* booking it read.
PaymentRead(u, id, amount, ref, file, storageFails) ==
  IF SubmitPaymentResponse(u, id, file, storageFails) = "ok"
    THEN /\ bookings[id].advance_paid + amount
              <= ToFixed2Half(bookings[id].total_amount) + MaxExtraPaid
         /\ Enter([Waiting EXCEPT !.op = "submit_payment", !.caller = u,
                                  !.id = id, !.row = bookings[id],
                                  !.amount = amount, !.ref = ref,
                                  !.file = file])
    ELSE SubmitPayment(u, id, amount, ref, file, storageFails)

\* The update of POST /api/payments/confirm, computed from the booking the
\* handler read, and the answer.
PaymentWrite(s) ==
  LET req == inflight[s]
  IN /\ req.op = "submit_payment"
     /\ bookings' = Update(req.id, PaymentUpdates(req.row, req.amount,
                                                  req.ref, req.file))
     /\ last' = Response("submit_payment", req.caller, req.id, "ok")
     /\ Leave(s)
     /\ UNCHANGED <<now, tz, page>>

\* ------------------------------------------------------ the booking form
\* PropertyDetails.calculateTotal: the total the form shows for property p,
\* g guests and the food choice, the rates read from the property.
calculateTotal(p, g, food) ==
  LET property == Properties[p]
      nights == 1
      baseAmount == property.base_price_per_night * nights
      guestCharges == property.per_head_charge * g * nights
      foodCharges == IF food THEN FoodRate * g * nights ELSE 0
      extraFees == property.cleaning_fee + property.service_fee
  IN baseAmount + guestCharges + foodCharges + extraFees

\* "Advance: {format(total * 0.5)} (50%)", shown with two decimals.
DisplayedAdvance(p, g, food) == RoundHalf(calculateTotal(p, g, food))

\* ------------------------------------------------------------------- time
Tick ==
  /\ now < MaxNow
  /\ now' = now + 1
  /\ UNCHANGED <<bookings, tz, page, last, inflight>>

\* --------------------------------------------------------- specifications
GuestCounts == {0, 4, 12}
FileCounts == {1, 2, 3}

\* The requests Spec creates its booking from: the booking form's (the chosen
\* date as both checkIn and checkOut), and a stay from midnight to noon with
\* food.
LifeRequests ==
  {[ci |-> DateOnly(1), co |-> DateOnly(1), food |-> FALSE],
   [ci |-> DateOnly(1), co |-> DateOnly(1) + 1, food |-> TRUE]}

\* Spec: every backend operation, on the first booking of the table.
Next ==
  \/ \E u \in Customers, r \in LifeRequests :
       /\ bookings = << >>
       /\ CreateBooking(u, 1, r.ci, r.co, 4, r.food, FALSE)
  \/ \E u \in Users, k \in FileCounts, storageFails \in BOOLEAN :
       UploadIdProofs(u, 1, k, storageFails)
  \/ \E u \in Users, st \in VerifyStatuses : VerifyBooking(u, 1, st)
  \/ \E u \in Users : CreateIntent(u, 1)
  \/ \E u \in Users, amount \in PayAmounts, ref \in References,
        file \in BOOLEAN, storageFails \in BOOLEAN :
       SubmitPayment(u, 1, amount, ref, file, storageFails)
  \/ \E u \in Users : ConfirmBooking(u, 1)
  \/ \E u \in Users : CancelBooking(u, 1)
  \/ \E u \in Users : CompleteBooking(u, 1)

Spec == Init /\ [][Next]_vars

\* SpecPage: the My Bookings page of a customer, next to the backend
\* operations that move a booking between its cards, as time passes.
NextPage ==
  \/ \E u \in Customers :
       /\ bookings = << >>
       /\ CreateBooking(u, 1, DateOnly(1), DateOnly(1), 4, FALSE, FALSE)
  \/ \E st \in {"approved", "rejected"} : VerifyBooking("root", 1, st)
  \/ \E u \in Customers, ref \in References, file \in BOOLEAN :
       SubmitPayment(u, 1, 0, ref, file, FALSE)
  \/ ConfirmBooking("root", 1)
  \/ \E u \in Users : CancelBooking(u, 1)
  \/ CompleteBooking("root", 1)
  \/ \E u \in Customers : LoadMyBookings(u)
  \/ \E id \in Ids, stage \in CancelStages, rowMatched \in BOOLEAN :
       PageCancel(id, stage, rowMatched)
  \/ Tick

SpecPage == Init /\ [][NextPage]_vars

\* SpecAdmit: admission of the booking form's requests into a table of
\* several bookings, and the status transitions.
NextAdmit ==
  \/ \E u \in Customers, p \in PropertyIds, d \in Days, g \in GuestCounts :
       CreateBooking(u, p, DateOnly(d), DateOnly(d), g, FALSE, FALSE)
  \/ \E u \in Users, id \in Ids : ConfirmBooking(u, id)
  \/ \E u \in Users, id \in Ids : CancelBooking(u, id)
  \/ \E u \in Users, id \in Ids : CompleteBooking(u, id)

SpecAdmit == Init /\ [][NextAdmit]_vars

\* SpecQuote: the amounts of a booking created for a valid stay, and the
\* advance create-intent asks for once the identity is approved.
QuoteProperties == {1, 2}
QuoteGuests == 1 .. 4
QuoteCheckOuts == {DateOnly(1), DateOnly(1) + 1}

NextQuote ==
  \/ \E u \in Customers, p \in QuoteProperties, co \in QuoteCheckOuts,
        g \in QuoteGuests, food \in BOOLEAN, lookupFails \in BOOLEAN :
       /\ bookings = << >>
       /\ CreateBooking(u, p, DateOnly(1), co, g, food, lookupFails)
  \/ \E st \in VerifyStatuses : VerifyBooking("root", 1, st)
  \/ \E u \in Users : CreateIntent(u, 1)

SpecQuote == Init /\ [][NextQuote]_vars

\* SpecGate: the admission checks of POST /api/bookings on an empty table,
\* for requests with and without a time of day, at several current instants,
\* on a server in UTC or east of it.
GateInstants == {DateOnly(d) + h : d \in Days, h \in 0 .. TicksPerDay - 1}
GateCheckOuts(ci) == {co \in GateInstants : co - ci \in -1 .. TicksPerDay}
GateGuests == {0, 4, 5, 11}

InitAnyZone ==
  /\ bookings = << >>
  /\ now = 1
  /\ tz \in TzOffsets
  /\ page = NoPage
  /\ last = NoRequest
  /\ inflight = NoneInflight

NextGate ==
  \/ \E u \in Users, p \in PropertyIds, ci \in GateInstants, g \in GateGuests,
        lookupFails \in BOOLEAN :
       \E co \in GateCheckOuts(ci) :
         /\ bookings = << >>
         /\ CreateBooking(u, p, ci, co, g, FALSE, lookupFails)
  \/ Tick

SpecGate == InitAnyZone /\ [][NextGate]_vars

\* SpecBlock: the form's requests for one property and day, again and again,
\* while the bookings of that day are verified, confirmed, cancelled and
\* completed.
BlockProperty == 1
BlockDay == 1

NextBlock ==
  \/ CreateBooking("alice", BlockProperty, DateOnly(BlockDay),
                   DateOnly(BlockDay), 4, FALSE, FALSE)
  \/ \E id \in Ids, st \in {"approved", "rejected"} :
       VerifyBooking("root", id, st)
  \/ \E id \in Ids : ConfirmBooking("root", id)
  \/ \E u \in {"alice", "root"}, id \in Ids : CancelBooking(u, id)
  \/ \E id \in Ids : CompleteBooking("root", id)

SpecBlock == Init /\ [][NextBlock]_vars

\* SpecRace: requests whose handlers interleave at their awaits: the form's
\* requests for one property and day, and the transitions and payments of
\* the first booking. The verify handler's update does not depend on what
\* it read, so it is taken in one step.
RaceUsers == {"alice", "root"}

NextRace ==
  \/ \E u \in RaceUsers :
       CreateRead(u, BlockProperty, DateOnly(BlockDay), DateOnly(BlockDay),
                  4, FALSE, FALSE)
  \/ \E s \in Slots : CreateWrite(s)
  \/ VerifyBooking("root", 1, "approved")
  \/ ConfirmRead("root", 1)
  \/ \E u \in RaceUsers : CancelRead(u, 1)
  \/ CompleteRead("root", 1)
  \/ \E s \in Slots : StatusWrite(s)
  \/ \E u \in RaceUsers, amount \in PayAmounts \ {0} :
       PaymentRead(u, 1, amount, "txn", FALSE, FALSE)
  \/ \E s \in Slots : PaymentWrite(s)

SpecRace == Init /\ [][NextRace]_vars

\* ================================================================= claims
Rows == 1 .. Len(bookings)

\* Booking i is an active day-use booking of property p on day d.
ActiveOn(i, p, d) ==
  /\ bookings[i].property_id = p
  /\ bookings[i].status \in {"pending", "confirmed"}
  /\ bookings[i].check_in_date = d
  /\ bookings[i].check_out_date = d

\* Every admission check of a request other than the conflict query passes.
OtherwiseAdmissible(u, p, d, g) ==
  /\ g >= 1
  /\ hasFirebasePhone(u) \/ hasPhoneInProfile(u)
  /\ Properties[p].is_active
  /\ g <= Properties[p].max_guests
  /\ DateOnly(d) >= now

\* C1, the decision: a request for property p on day d, admissible otherwise,
\* is answered 'already booked' when an active booking of p on d exists and
\* is accepted when none does.
C1_Decision ==
  \A u \in Customers, p \in PropertyIds, d \in Days, g \in GuestCounts :
    OtherwiseAdmissible(u, p, d, g)
      => CreateResponse(u, p, DateOnly(d), DateOnly(d), g, FALSE)
           = IF \E i \in Rows : ActiveOn(i, p, d) THEN "already_booked"
                                                  ELSE "created"

\* C1, the effect: a rejected request inserts nothing; an accepted one
\* appends one pending booking and leaves the others as they were.
C1_Effect ==
  last'.op = "create" =>
    IF last'.res = "created"
      THEN /\ Len(bookings') = Len(bookings) + 1
           /\ SubSeq(bookings', 1, Len(bookings)) = bookings
           /\ bookings'[Len(bookings')].status = "pending"
      ELSE bookings' = bookings

\* C1, the consequence: no two active bookings share a property and a day.
C1_NoDoubleBooking ==
  \A i \in Rows, j \in Rows :
    (/\ i # j
     /\ Active(bookings[i])
     /\ Active(bookings[j])
     /\ bookings[i].property_id = bookings[j].property_id)
    => bookings[i].check_in_date # bookings[j].check_in_date

LifecycleEdge(a, b, op) ==
  \/ a = "pending" /\ b = "confirmed" /\ op = "confirm"
  \/ a = "confirmed" /\ b = "completed" /\ op = "complete"
  \/ a \in {"pending", "confirmed"} /\ b = "cancelled" /\ op = "cancel"

\* C2: in every step of the backend operations a booking's status stays the
\* same or moves along pending->confirmed (confirm), confirmed->completed
\* (complete), or pending/confirmed->cancelled (cancel); a confirm succeeds
\* only on a pending booking and a complete only on a confirmed one.
C2_Lifecycle ==
  [][/\ \A i \in Rows :
          /\ i \in 1 .. Len(bookings')
          /\ \/ bookings'[i].status = bookings[i].status
             \/ /\ last'.id = i
                /\ LifecycleEdge(bookings[i].status, bookings'[i].status,
                                 last'.op)
     /\ (last'.op = "confirm" /\ last'.res = "ok")
          => /\ bookings[last'.id].status = "pending"
             /\ bookings'[last'.id].status = "confirmed"
     /\ (last'.op = "complete" /\ last'.res = "ok")
          => /\ bookings[last'.id].status = "confirmed"
             /\ bookings'[last'.id].status = "completed"]_vars

\* C2 witness: a second confirm of a confirmed booking has been rejected.
C2_Witness ==
  /\ last.op = "confirm"
  /\ last.res = "not_pending"
  /\ bookings[last.id].status = "confirmed"

\* Booking id is cancelled or completed.
Terminal(id) == bookings[id].status \in {"cancelled", "completed"}

\* The caller is the booking's customer or an admin.
OwnerOrAdmin(u, id) == isAdminFromReq(u) \/ bookings[id].customer_id = u

\* C3: every cancel path offered to the owner or an admin, the Cancel buttons
\* of the My Bookings page included, rejects a cancel of a cancelled or
\* completed booking as 'Booking cannot be cancelled' and leaves the status.
C3_TerminalCancelRejected ==
  [][(/\ last'.op \in {"cancel", "page_cancel"}
      /\ last'.id \in Rows
      /\ OwnerOrAdmin(last'.caller, last'.id)
      /\ Terminal(last'.id))
     => /\ last'.res = "cannot_cancel"
        /\ bookings'[last'.id].status = bookings[last'.id].status]_vars

\* The operations open to the booking's customer or an admin.
OwnerOrAdminOps == {"cancel", "id_proofs", "create_intent", "submit_payment"}

\* C4: an owner-or-admin operation (cancel, id-proof upload, create-intent,
\* payment submission) called by someone who is neither the booking's
\* customer nor an admin is rejected and changes no booking.
C4_StrangerRejected ==
  [][(/\ last'.op \in OwnerOrAdminOps
      /\ last'.id \in Rows
      /\ ~OwnerOrAdmin(last'.caller, last'.id))
     => /\ bookings' = bookings
        /\ last'.res \in {"not_authorized", "min_files"}]_vars

\* C4 witness: a stranger's payment submission for an approved, pending
\* booking has been rejected as not authorized.
C4_Witness ==
  /\ last.op = "submit_payment"
  /\ last.res = "not_authorized"
  /\ bookings[last.id].customer_id # last.caller
  /\ bookings[last.id].verification_status = "approved"
  /\ bookings[last.id].status = "pending"

\* C5: verify, confirm and complete change a booking only for an admin: a
\* caller without the admin role, the booking's own customer included, is
\* rejected and changes nothing, and a status becomes confirmed or completed
\* only in a step of an admin.
C5_AdminOnly ==
  [][/\ (last'.op \in {"verify", "confirm", "complete"}
           /\ ~isAdminFromReq(last'.caller))
        => /\ bookings' = bookings
           /\ last'.res = "admin_required"
     /\ \A i \in Rows :
          (/\ i \in 1 .. Len(bookings')
           /\ bookings'[i].status \in {"confirmed", "completed"}
           /\ bookings'[i].status # bookings[i].status)
          => isAdminFromReq(last'.caller)]_vars

\* C5 witness: the booking's own customer has been refused a confirm.
C5_Witness ==
  /\ last.op = "confirm"
  /\ last.res = "admin_required"
  /\ last.id \in Rows
  /\ bookings[last.id].customer_id = last.caller
  /\ bookings[last.id].status = "pending"

\* C6: a payment submission succeeds only on a booking whose
\* verificationStatus is approved and whose status is not cancelled; a
\* submission for any other booking is rejected and leaves advance_paid,
\* manual_reference and payment_screenshot_url as they were.
C6_SubmitNeedsApprovedNotCancelled ==
  [][(last'.op = "submit_payment" /\ last'.id \in Rows)
     => LET b == bookings[last'.id]
            c == bookings'[last'.id]
        IN IF b.verification_status = "approved" /\ b.status # "cancelled"
             THEN TRUE
             ELSE /\ last'.res # "ok"
                  /\ c.advance_paid = b.advance_paid
                  /\ c.manual_reference = b.manual_reference
                  /\ c.payment_screenshot_url = b.payment_screenshot_url]_vars

\* C7: a status becomes confirmed only on a booking whose verificationStatus
\* is approved and which has a payment reference or a screenshot recorded.
C7_ConfirmedAfterApprovalAndPayment ==
  [][\A i \in Rows :
       (/\ i \in 1 .. Len(bookings')
        /\ bookings'[i].status = "confirmed"
        /\ bookings[i].status # "confirmed")
       => /\ bookings[i].verification_status = "approved"
          /\ HasPaymentEvidence(bookings[i])]_vars

\* C8: in every reachable state every booking's advance_paid is at most its
\* total_amount.
C8_AdvanceWithinTotal ==
  \A i \in Rows : bookings[i].advance_paid <= bookings[i].total_amount

\* The nights a stored booking can have been priced for.
PricedNights == 0 .. 1

\* C9, the decomposition: for the nights n the booking was priced for,
\* base_amount, guest_charges and extra_fees are the property's rates times
\* n, extra_fees holding the cleaning fee, the service fee and the food
\* charge (500 per guest and night when food is required, else 0), and
\* total_amount is exactly their sum.
C9_Decomposition ==
  \A i \in Rows :
    LET b == bookings[i]
        property == Properties[b.property_id]
    IN /\ b.total_amount = b.base_amount + b.guest_charges + b.extra_fees
       /\ \E n \in PricedNights :
            /\ b.base_amount = property.base_price_per_night * n
            /\ b.guest_charges = property.per_head_charge * b.num_guests * n
            /\ b.extra_fees =
                 property.cleaning_fee + property.service_fee
                   + (IF b.food_required THEN FoodRate * b.num_guests * n
                                         ELSE 0)

\* C9, the frame: no step changes a stored booking's four amounts.
C9_AmountsKept ==
  \A i \in Rows :
    /\ i \in 1 .. Len(bookings')
    /\ bookings'[i].total_amount = bookings[i].total_amount
    /\ bookings'[i].base_amount = bookings[i].base_amount
    /\ bookings'[i].guest_charges = bookings[i].guest_charges
    /\ bookings'[i].extra_fees = bookings[i].extra_fees

\* C9: every stored booking has total_amount = base_amount + guest_charges +
\* extra_fees with extra_fees = cleaning fee + service fee + food charge, and
\* no later operation changes any of the four amounts.
C9_TotalDecomposition == []C9_Decomposition /\ [][C9_AmountsKept]_vars

\* C9 witness: a booking with food, priced for one night, has had a payment
\* reference recorded and has been confirmed.
C9_Witness ==
  \E i \in Rows :
    /\ bookings[i].food_required
    /\ bookings[i].extra_fees
         = Properties[bookings[i].property_id].cleaning_fee
             + Properties[bookings[i].property_id].service_fee
             + FoodRate * bookings[i].num_guests
    /\ bookings[i].manual_reference # ""
    /\ bookings[i].status = "confirmed"

Inserted == bookings'[Len(bookings')]

\* C11: a booking the booking form creates (checkIn = checkOut = the chosen
\* date) is priced for one night: base_amount is the property's base price
\* and guest_charges its per-head price times the guests; for base 2000,
\* per-head 200, cleaning 100, service 50 and 4 guests without food the row
\* holds 2000, 800, 150, 2950 and an advance of 1475.
C11_SameDayOneNight ==
  [][\A u \in Customers, p \in PropertyIds, d \in Days, g \in GuestCounts :
       (/\ CreateBooking(u, p, DateOnly(d), DateOnly(d), g, FALSE, FALSE)
        /\ last'.res = "created")
       => /\ Inserted.base_amount = Properties[p].base_price_per_night
          /\ Inserted.guest_charges = Properties[p].per_head_charge * g
          /\ (p = 1 /\ g = 4)
               => /\ Inserted.base_amount = 200000
                  /\ Inserted.guest_charges = 80000
                  /\ Inserted.extra_fees = 15000
                  /\ Inserted.total_amount = 295000
                  /\ Inserted.advance_paid = 147500]_vars

\* A rate of property p is negative.
AnyRateNegative(p) ==
  \/ Properties[p].base_price_per_night < 0
  \/ Properties[p].per_head_charge < 0
  \/ Properties[p].cleaning_fee < 0
  \/ Properties[p].service_fee < 0

\* C12: a request with fewer than 1 guest, with fewer than 1 computed night
\* or for a property with a negative rate is rejected and inserts nothing,
\* and no stored booking has a negative amount.
C12_InvalidPricingRejected ==
  /\ [][\A u \in Customers, p \in PropertyIds, d \in Days, g \in GuestCounts :
          (/\ CreateBooking(u, p, DateOnly(d), DateOnly(d), g, FALSE, FALSE)
           /\ \/ g < 1
              \/ Nights(DateOnly(d), DateOnly(d)) < 1
              \/ AnyRateNegative(p))
          => /\ last'.res # "created"
             /\ bookings' = bookings]_vars
  /\ [](\A i \in Rows :
          /\ bookings[i].base_amount >= 0
          /\ bookings[i].guest_charges >= 0
          /\ bookings[i].extra_fees >= 0
          /\ bookings[i].total_amount >= 0)

\* C13, the decision: whatever the other inputs, a request for more guests
\* than the property's max_guests is not accepted.
C13_Decision ==
  \A u \in Users, p \in PropertyIds, ci \in GateInstants, g \in GateGuests,
     lookupFails \in BOOLEAN :
    \A co \in GateCheckOuts(ci) :
      g > Properties[p].max_guests
        => CreateResponse(u, p, ci, co, g, lookupFails) # "created"

\* C13, the stored rows: between 1 guest and the property's max_guests.
C13_Rows ==
  \A i \in Rows :
    /\ bookings[i].num_guests >= 1
    /\ bookings[i].num_guests <= Properties[bookings[i].property_id].max_guests

Today == UtcDay(now)

\* C14: the past-date check rejects a request exactly when its check-in date
\* is before today's date: a form request for an earlier date is always
\* rejected, and one for today is not rejected as past, whatever the time of
\* day.
C14_PastCheckByCalendarDate ==
  [][\A u \in Customers, p \in PropertyIds, d \in Days, g \in GuestCounts :
       CreateBooking(u, p, DateOnly(d), DateOnly(d), g, FALSE, FALSE)
       => /\ d < Today => last'.res # "created"
          /\ d >= Today => last'.res # "past_date"]_vars

\* C15: every stored booking has check_in_date = check_out_date, requests
\* whose dates differ having been rejected.
C15_StoredSameDate ==
  \A i \in Rows : bookings[i].check_in_date = bookings[i].check_out_date

\* The requester has a phone number at the identity provider or in the
\* saved profile.
HasPhoneOnFile(u) == hasFirebasePhone(u) \/ hasPhoneInProfile(u)

\* C16, the decision: for a request that passes validation, with the lookups
\* succeeding the answer is 'phone number required' exactly when the
\* requester has no phone number on file, verified or not; with a failing
\* lookup the answer is that of the remaining checks, as for a requester
\* with a phone number.
C16_Decision ==
  \A u \in Users, p \in PropertyIds, ci \in GateInstants,
     g \in GateGuests \ {0} :
    \A co \in GateCheckOuts(ci) :
      /\ (CreateResponse(u, p, ci, co, g, FALSE) = "phone_required")
           <=> ~HasPhoneOnFile(u)
      /\ (HasPhoneOnFile(u) /\ ~isPhoneVerified(u))
           => CreateResponse(u, p, ci, co, g, FALSE) # "phone_required"
      /\ \A v \in Users :
           HasPhoneOnFile(v)
             => CreateResponse(u, p, ci, co, g, TRUE)
                  = CreateResponse(v, p, ci, co, g, FALSE)

ListedOrderResponse(u, p, ci, co, g, lookupFails) ==
  IF g < 1 THEN "validation"
  ELSE IF ~Properties[p].is_active THEN "property_unavailable"
  ELSE IF g > Properties[p].max_guests THEN "max_guests"
  ELSE IF LocalDay(ci, tz) # LocalDay(co, tz) THEN "same_day_only"
  ELSE IF ci < now THEN "past_date"
  ELSE IF Conflicts(p, ci, co) # {} THEN "already_booked"
  ELSE IF ~PhoneGatePasses(u, lookupFails) THEN "phone_required"
  ELSE "created"

\* C17: a request that fails several admission checks is rejected with the
\* reason of the first failed check in the listed order (property active,
\* capacity, same day, not past, no conflict, phone on file).
C17_ListedOrder ==
  [][\A u \in Users, p \in PropertyIds, ci \in GateInstants,
        g \in GateGuests, lookupFails \in BOOLEAN :
       \A co \in GateCheckOuts(ci) :
         CreateBooking(u, p, ci, co, g, FALSE, lookupFails)
         => last'.res = ListedOrderResponse(u, p, ci, co, g, lookupFails)]_vars

\* The rows that hold property p on day d, whatever their status.
RowsOn(p, d) ==
  {i \in Rows : /\ bookings[i].property_id = p
                /\ bookings[i].check_in_date = d
                /\ bookings[i].check_out_date = d}

\* C18, the decision: an otherwise valid request for a property and day is
\* accepted when every booking of that day is cancelled or completed, and is
\* answered 'already booked' while one of them is pending (whatever its
\* verification_status) or confirmed.
C18_Decision ==
  LET res == CreateResponse("alice", BlockProperty, DateOnly(BlockDay),
                            DateOnly(BlockDay), 4, FALSE)
      on == RowsOn(BlockProperty, BlockDay)
  IN /\ (\A i \in on : bookings[i].status \in {"cancelled", "completed"})
          => res = "created"
     /\ \A i \in on :
          bookings[i].status = "pending" => res = "already_booked"
     /\ \A i \in on :
          bookings[i].status = "confirmed" => res = "already_booked"

\* C18: only pending and confirmed bookings block a day: once the day's only
\* active booking is cancelled or completed a new request for the day is
\* accepted and stored, and a pending booking blocks the day whatever its
\* verification_status.
C18_OnlyActiveBlocks ==
  /\ []C18_Decision
  /\ [][last'.op = "create"
          => IF last'.res = "created"
               THEN /\ bookings' = Append(bookings, Inserted)
                    /\ Inserted.status = "pending"
               ELSE bookings' = bookings]_vars

\* C18 witness: the day was booked again after its first booking ended, and
\* a further request was rejected while the second booking, its identity
\* rejected, is still pending.
C18_Witness ==
  /\ last.op = "create"
  /\ last.res = "already_booked"
  /\ Len(bookings) >= 2
  /\ bookings[1].status \in {"cancelled", "completed"}
  /\ bookings[2].status = "pending"
  /\ bookings[2].verification_status = "rejected"
  /\ RowsOn(BlockProperty, BlockDay) = Rows

\* The upload step on booking id: the stored references are kept, in order,
\* at least 2 follow them, verification_status is pending and nothing else
\* of the table changes.
AppendsAndResets(id) ==
  LET b == bookings[id]
      c == bookings'[id]
  IN /\ Len(c.id_proofs) >= Len(b.id_proofs) + 2
     /\ SubSeq(c.id_proofs, 1, Len(b.id_proofs)) = b.id_proofs
     /\ \A i \in 1 .. Len(c.id_proofs), j \in 1 .. Len(c.id_proofs) :
          i # j => c.id_proofs[i] # c.id_proofs[j]
     /\ c.verification_status = "pending"
     /\ bookings' = [bookings EXCEPT ![id].id_proofs = c.id_proofs,
                                     ![id].verification_status = "pending"]

\* C19: an upload of fewer than 2 files is rejected and changes nothing; a
\* successful upload, by the owner or an admin, appends the new references
\* after the stored ones and sets verification_status to pending whatever it
\* was; and while verification_status is not approved a payment submission
\* is rejected, approval coming only from an admin's verify.
C19_UploadAppendsAndResets ==
  /\ [](\A u \in Users, id \in Rows, k \in FileCounts, storageFails \in BOOLEAN :
          k < 2 => UploadResponse(u, id, k, storageFails) = "min_files")
  /\ [][/\ (last'.op = "id_proofs" /\ last'.id \in Rows)
             => IF last'.res = "ok"
                  THEN /\ OwnerOrAdmin(last'.caller, last'.id)
                       /\ AppendsAndResets(last'.id)
                  ELSE bookings' = bookings
        /\ (/\ last'.op = "submit_payment"
            /\ last'.id \in Rows
            /\ bookings[last'.id].verification_status # "approved")
             => /\ last'.res # "ok"
                /\ bookings' = bookings
        /\ \A i \in Rows :
             (/\ i \in 1 .. Len(bookings')
              /\ bookings'[i].verification_status = "approved"
              /\ bookings[i].verification_status # "approved")
             => /\ last'.op = "verify"
                /\ isAdminFromReq(last'.caller)]_vars

\* C19 witness: a booking that was approved and paid for has had a second
\* upload, which left it with at least 4 references and pending again.
C19_Witness ==
  /\ last.op = "id_proofs"
  /\ last.res = "ok"
  /\ Len(bookings[last.id].id_proofs) >= 4
  /\ bookings[last.id].manual_reference # ""
  /\ bookings[last.id].verification_status = "pending"

C21_ApprovedHasTwoProofs ==
  \A i \in Rows :
    bookings[i].verification_status = "approved"
      => Len(bookings[i].id_proofs) >= 2

AfterPayment(b, amount, ref, file) ==
  [b EXCEPT !.advance_paid = b.advance_paid + amount,
            !.manual_reference = IF ref # "" THEN ref ELSE @,
            !.payment_screenshot_url = IF file THEN "shot" ELSE @,
            !.payment_method = "manual"]

\* C23: a successful payment submission adds exactly the submitted amount to
\* advance_paid, records the reference and the screenshot when given, and
\* leaves status, verification_status, id_proofs and the price fields as
\* they were; create-intent changes at most the payment method; and a
\* status becomes confirmed only in an admin's confirm.
C23_PaymentFrame ==
  [][/\ (last'.op = "submit_payment" /\ last'.res = "ok")
          => \A amount \in PayAmounts, ref \in References, file \in BOOLEAN :
               SubmitPayment(last'.caller, last'.id, amount, ref, file, FALSE)
                 => bookings' =
                      [bookings EXCEPT ![last'.id] =
                         AfterPayment(bookings[last'.id], amount, ref, file)]
     /\ (last'.op = "submit_payment" /\ last'.res # "ok")
          => bookings' = bookings
     /\ (last'.op = "create_intent" /\ last'.id \in Rows)
          => \/ bookings' = bookings
             \/ bookings' = [bookings EXCEPT ![last'.id].payment_method = "manual"]
     /\ \A i \in Rows :
          (/\ i \in 1 .. Len(bookings')
           /\ bookings'[i].status = "confirmed"
           /\ bookings[i].status # "confirmed")
          => /\ last'.op = "confirm"
             /\ isAdminFromReq(last'.caller)]_vars

\* C23 witness: a payment with amount, reference and screenshot has been
\* accepted on a booking that is approved and still pending.
C23_Witness ==
  /\ last.op = "submit_payment"
  /\ last.res = "ok"
  /\ bookings[last.id].status = "pending"
  /\ bookings[last.id].verification_status = "approved"
  /\ bookings[last.id].manual_reference # ""
  /\ bookings[last.id].payment_screenshot_url # ""
  /\ bookings[last.id].advance_paid
       > ToFixed2Half(bookings[last.id].total_amount)

\* C24: when the insert of an admitted create request runs, the request
\* succeeds and its pending row is appended whatever the table holds by then,
\* a booking of the same property and date inserted since the conflict query
\* included: two interleaved requests both succeed and leave two pending
\* bookings.
C24_InterleavedCreatesBothSucceed ==
  [][\A s \in Slots :
       (inflight[s].op = "create" /\ inflight'[s].op = "none")
         => /\ last' = Response("create", inflight[s].caller, 0, "created")
            /\ bookings' = Append(bookings, inflight[s].row)
            /\ inflight[s].row.status = "pending"]_vars

\* C24 witness: two pending bookings of one property for one date, both
\* requests answered with success.
C24_Witness ==
  /\ last.op = "create"
  /\ last.res = "created"
  /\ \E i, j \in Rows :
       /\ i < j
       /\ bookings[i].status = "pending"
       /\ bookings[j].status = "pending"
       /\ bookings[i].property_id = bookings[j].property_id
       /\ bookings[i].check_in_date = bookings[j].check_in_date

\* C25: under interleaved requests a cancelled booking stays cancelled and a
\* completed booking stays completed.
C25_TerminalStaysUnderInterleaving ==
  [][\A i \in Rows :
       bookings[i].status \in {"cancelled", "completed"}
         => bookings'[i].status = bookings[i].status]_vars

\* C26: every successful payment submission adds its amount to the
\* advance_paid the booking has when the submission is written, so two
\* successful submissions a and b leave the prior value plus a plus b in
\* every interleaving.
C26_PaymentsAddUp ==
  [][\A s \in Slots :
       (inflight[s].op = "submit_payment" /\ inflight'[s].op = "none")
         => bookings'[inflight[s].id].advance_paid
              = bookings[inflight[s].id].advance_paid + inflight[s].amount]_vars

\* C27: for a booking with a positive total that is approved, still pending
\* and has had no payment submitted (no request of this specification
\* submits one), the owner's or admin's create-intent succeeds, the amount
\* to pay being the 50% advance target; and it is never answered 'Advance
\* payment already completed'.
C27_IntentOffersAdvance ==
  [][(/\ last'.op = "create_intent"
      /\ last'.id \in Rows
      /\ Authorized(last'.caller, last'.id)
      /\ bookings[last'.id].verification_status = "approved"
      /\ bookings[last'.id].status = "pending"
      /\ bookings[last'.id].total_amount > 0)
       => /\ last'.res = "ok"
          /\ AmountToPay(bookings[last'.id]) = AdvanceTarget(bookings[last'.id])
          /\ AmountToPay(bookings[last'.id]) > 0]_vars

\* C28: for a booking the form creates (checkIn = checkOut = the chosen
\* date), the total the form showed equals the stored total_amount and the
\* advance it showed equals the stored advance.
C28_ShownTotalIsStored ==
  [][\A u \in Customers, p \in QuoteProperties, g \in QuoteGuests,
        food \in BOOLEAN :
       (/\ CreateBooking(u, p, DateOnly(1), DateOnly(1), g, food, FALSE)
        /\ last'.res = "created")
       => /\ Inserted.total_amount = calculateTotal(p, g, food)
          /\ Inserted.advance_paid = DisplayedAdvance(p, g, food)]_vars

\* C29: a loaded My Bookings page shows every booking of its user in exactly
\* one of the six lists; a cancelled booking is not shown as pending
\* approval, and a confirmed booking is shown.
C29_ExactlyOneList ==
  [][last'.op = "page_load"
       => \A i \in Rows :
            bookings[i].customer_id = page'.user
              => /\ Cardinality({c \in page'.cards : c[1] = i}) = 1
                 /\ bookings[i].status = "cancelled"
                      => <<i, "pending_approval">> \notin page'.cards
                 /\ bookings[i].status = "confirmed"
                      => \E c \in page'.cards : c[1] = i]_vars

\* C30: no step changes the verification_status or the id_proofs of a
\* booking that is confirmed, cancelled or completed; so a booking confirmed
\* as approved stays approved.
C30_VerificationFrozenAfterPending ==
  [][\A i \in Rows :
       bookings[i].status \in {"confirmed", "cancelled", "completed"}
         => /\ bookings'[i].verification_status
                 = bookings[i].verification_status
            /\ bookings'[i].id_proofs = bookings[i].id_proofs]_vars

====
